---- MODULE Spec2Model ----
(***************************************************************************)
(* The lease lock of webscrapbook/scrapbook/host.py: FileLock, the handle  *)
(* returned by acquire() (_FileLockAcquireProxy) and the keeper thread.    *)
(*                                                                         *)
(* One lock name, hence one lease file.  Every lock object has a caller    *)
(* thread (pc) and keeper threads (kpc).  Steps are the points where a     *)
(* thread touches the file, reads the clock or reads/writes a field that   *)
(* another thread of the same object reads or writes.                      *)
(***************************************************************************)
EXTENDS Integers, FiniteSets, TLC

\* ------------------------------------------------------------- bounds
\* thread objects one lock object can have at a time
MaxKeepers == 2
\* the longest an acquire() is suspended between its t = time.time() and its
\* os.stat(), in ticks
MaxLag == 1

\* ------------------------------------------------- program parameters
\* stale, in clock ticks; a tick is the keeper's interval stale * 0.2
Stale == 5
\* poll_interval of acquire(), in ticks
PollInterval == 1
\* the values of timeout a caller passes: none, zero, positive
Timeouts == {-1, 0, 1}

\* The lock objects built for the lock name: one object and another, each
\* in a process of its own or both in one.
Locks == {1, 2}
Slots == 1..MaxKeepers
\* token_urlsafe(): one distinct token per constructed object; Foreign is the
\* token of a holder that no longer runs (its lease file may be left behind)
Foreign == 0
Tokens == Locks \cup {Foreign}
\* float('inf')
Inf == 1000
\* a local that is not assigned yet
NoTime == -1
\* self._keeper = None
None == 0

(***************************************************************************)
(* Times are kept relative to the clock, so that the clock itself needs no *)
(* variable and time is unbounded:                                         *)
(*   file.age         time.time() - st_mtime, counted up to AgeCap         *)
(*   timeout_time[l]  timeout_time - time.time(), counted down to 0, or Inf*)
(*   t[l]             time.time() - t                                      *)
(*   wake[l], kwake   what is left of a time.sleep()                       *)
(* Tick is one tick of the clock.  The tests of the code compare           *)
(* differences of times only, so they read the same on relative times.     *)
(***************************************************************************)
AgeCap == Stale + MaxLag

NoFile == [exists |-> FALSE, content |-> Foreign, age |-> 0]
Leftover == [exists |-> TRUE, content |-> Foreign, age |-> 0]

VARIABLES
    file,         \* the lease file: exists, content (a token), age
    lock,         \* lock[l]: self._lock
    id,           \* id[l]: self.id
    keeper,       \* keeper[l]: self._keeper, None or a thread (slot)
    pc,           \* pc[l]: where l's caller is
    scoped,       \* scoped[l]: the acquire() in progress is `with l.acquire()`
    timeout,      \* acquire()'s argument timeout
    timeout_time, \* acquire()'s local timeout_time
    t,            \* acquire()'s local t
    wake,         \* when acquire()'s time.sleep(poll_interval) is over
    kpc,          \* kpc[l][s]: where keeper thread s of l is
    kwake,        \* when the keeper's time.sleep(poll_interval) is over
    ev            \* the step just taken and its outcome

vars == <<file, lock, id, keeper, pc, scoped, timeout, timeout_time, t, wake,
          kpc, kwake, ev>>

acqLocals == <<scoped, timeout, timeout_time, t, wake>>
keeperVars == <<keeper, kpc, kwake>>

\* no acquire() in progress
NoArg == NoTime - 1

Ev(op, l, res) == [op |-> op, l |-> l, res |-> res, arg |-> NoArg]

\* the end of an acquire(timeout = arg)
AcqEv(l, res, arg) == [op |-> "acquire", l |-> l, res |-> res, arg |-> arg]

AcqPcs == {"open", "stat", "reclaim", "sleep"}

\* ------------------------------------------------------------ helpers

\* (mutant: a negative timeout taken as a deadline like any other)
Deadline_plain(tmo) == IF tmo >= 0 THEN tmo ELSE 0

\* timeout_time = time.time() + timeout if timeout >= 0 else float('inf')
Deadline(tmo) == IF tmo >= 0 THEN tmo ELSE Inf

\* (mutant: the deadline is not compared)
TimedOut_never(left) == FALSE

\* (mutant: t > timeout_time)
TimedOut_gt(left) == 0 > left

\* if t >= timeout_time: raise LockTimeoutError (t is time.time() here)
TimedOut(left) == 0 >= left

\* (mutant: t > stale_time)
IsStale_gt(lag, age) == age - lag > Stale

\* stale_time = st_mtime + self.stale ; if t >= stale_time
IsStale(lag, age) == age - lag >= Stale

\* (mutant: the file opened 'w', which succeeds whether it exists or not)
CanCreate_w == TRUE

\* open(self.file, 'x'): succeeds only when the file does not exist
CanCreate == ~file.exists

\* (mutant: the file opened 'a', which keeps what an existing file holds)
Written_append(l) ==
    IF file.exists THEN [file EXCEPT !.age = 0]
    ELSE [exists |-> TRUE, content |-> id[l], age |-> 0]

\* fh.write(self.id) into a created or truncated file
Written(l) == [exists |-> TRUE, content |-> id[l], age |-> 0]

\* (mutant: extend() that does not reach os.utime)
Touched_not == file

\* os.utime(self.file)
Touched == [file EXCEPT !.age = 0]

\* (mutant: self.stale * 2)
KeepInterval_long == Stale * 2

\* poll_interval = self.stale * 0.2
KeepInterval == Stale \div 5

\* (mutant: keep() without `if self._keeper: return self._keeper`)
KeepStarts_always(l, held) == held

\* keep(): a thread is started only with no keeper recorded and the lock held
KeepStarts(l, held) == keeper[l] = None /\ held

Alive(l) == {s \in Slots : kpc[l][s] \notin {"none", "dead"}}

FreeSlots(l) == {s \in Slots : kpc[l][s] = "none"}

\* keep() with self._lock = held
DoKeep(l, held) ==
    IF KeepStarts(l, held)
    THEN /\ FreeSlots(l) # {}
         /\ LET s == CHOOSE x \in FreeSlots(l) : \A y \in FreeSlots(l) : x <= y
            IN /\ keeper' = [keeper EXCEPT ![l] = s]
               /\ kpc' = [kpc EXCEPT ![l][s] = "sleep"]
               /\ kwake' = [kwake EXCEPT ![l][s] = KeepInterval]
    ELSE UNCHANGED keeperVars

KeepResult(l, held) ==
    IF keeper[l] # None THEN "existing" ELSE IF held THEN "started" ELSE "none"

ResetLocals(l) ==
    /\ scoped' = [scoped EXCEPT ![l] = FALSE]
    /\ timeout' = [timeout EXCEPT ![l] = NoArg]
    /\ timeout_time' = [timeout_time EXCEPT ![l] = NoTime]
    /\ t' = [t EXCEPT ![l] = NoTime]
    /\ wake' = [wake EXCEPT ![l] = NoTime]

\* acquire() returns _FileLockAcquireProxy(self); under `with`, __enter__
\* runs keep() and the caller is in the body
Handle(l, w) ==
    IF w THEN /\ pc' = [pc EXCEPT ![l] = "body"]
              /\ DoKeep(l, TRUE)
         ELSE /\ pc' = [pc EXCEPT ![l] = "idle"]
              /\ UNCHANGED keeperVars

Init ==
    /\ file \in {NoFile, Leftover}
    /\ lock = [l \in Locks |-> FALSE]
    /\ id = [l \in Locks |-> l]
    /\ keeper = [l \in Locks |-> None]
    /\ pc = [l \in Locks |-> "idle"]
    /\ scoped = [l \in Locks |-> FALSE]
    /\ timeout = [l \in Locks |-> NoArg]
    /\ timeout_time = [l \in Locks |-> NoTime]
    /\ t = [l \in Locks |-> NoTime]
    /\ wake = [l \in Locks |-> NoTime]
    /\ kpc = [l \in Locks |-> [s \in Slots |-> "none"]]
    /\ kwake = [l \in Locks |-> [s \in Slots |-> NoTime]]
    /\ ev = Ev("init", 0, "")

\* ------------------------------------------------------------ the clock

Down(x) == IF x = NoTime \/ x = Inf \/ x = 0 THEN x ELSE x - 1

Aged == IF file.exists /\ file.age < AgeCap
        THEN [file EXCEPT !.age = file.age + 1] ELSE file

\* One tick of time.time().
Tick ==
    /\ \A l \in Locks : pc[l] = "stat" => t[l] < MaxLag
    /\ file' = Aged
    /\ timeout_time' = [l \in Locks |-> Down(timeout_time[l])]
    /\ t' = [l \in Locks |-> IF pc[l] = "stat" THEN t[l] + 1 ELSE t[l]]
    /\ wake' = [l \in Locks |-> Down(wake[l])]
    /\ kwake' = [l \in Locks |-> [s \in Slots |-> Down(kwake[l][s])]]
    /\ ev' = Ev("tick", 0, "")
    /\ UNCHANGED <<lock, id, keeper, pc, scoped, timeout, kpc>>

\* --------------------------------------------------- FileLock.__init__

\* the result of building an object with persist = tok
PersEv(l, res, tok) == [op |-> "persist", l |-> l, res |-> res, arg |-> tok]

\* (mutant: the content of the file is not compared)
PersistOk_any(tok) == TRUE

\* assert fh.read() == persist
PersistOk(tok) == file.content = tok

\* A new object built with persist = tok takes the place of an object that
\* is no longer in use.
Persist(l, tok) ==
    /\ pc[l] = "idle" /\ ~lock[l] /\ keeper[l] = None
    /\ \A s \in Slots : kpc[l][s] = "none"
    /\ IF ~file.exists
       THEN /\ ev' = PersEv(l, "LockPersistOSError", tok)
            /\ UNCHANGED <<id, lock>>
       ELSE IF ~PersistOk(tok)
       THEN /\ ev' = PersEv(l, "LockPersistUnmatchError", tok)
            /\ UNCHANGED <<id, lock>>
       ELSE /\ id' = [id EXCEPT ![l] = tok]
            /\ lock' = [lock EXCEPT ![l] = TRUE]
            /\ ev' = PersEv(l, "held", tok)
    /\ UNCHANGED <<file, keeper, pc, acqLocals, kpc, kwake>>

\* ---------------------------------------------------- FileLock.acquire

\* (mutant: acquire() without the test of self._lock)
Reentrant_never(l) == FALSE

\* if self._lock: return _FileLockAcquireProxy(self)
Reentrant(l) == lock[l]

\* The call: the re-entrant return, or the deadline and the loop's entry.
AcquireCall(l, tmo, w) ==
    /\ pc[l] = "idle" \/ (pc[l] = "body" /\ lock[l] /\ ~w)
    /\ IF Reentrant(l)
       THEN /\ IF pc[l] = "body"
               THEN UNCHANGED <<pc, keeperVars>>
               ELSE Handle(l, w)
            /\ ev' = Ev("acquire", l, "reentrant")
            /\ UNCHANGED acqLocals
       ELSE /\ pc' = [pc EXCEPT ![l] = "open"]
            /\ scoped' = [scoped EXCEPT ![l] = w]
            /\ timeout' = [timeout EXCEPT ![l] = tmo]
            /\ timeout_time' = [timeout_time EXCEPT ![l] = Deadline(tmo)]
            /\ ev' = Ev("acquire", l, "call")
            /\ UNCHANGED <<t, wake, keeperVars>>
    /\ UNCHANGED <<file, lock, id>>

\* One pass of the loop's head: the exclusive create; when the file exists,
\* t = time.time() and the deadline.
Open(l) ==
    /\ pc[l] = "open" \/ (pc[l] = "sleep" /\ wake[l] = 0)
    /\ IF CanCreate
       THEN /\ file' = Written(l)
            /\ lock' = [lock EXCEPT ![l] = TRUE]
            /\ Handle(l, scoped[l])
            /\ ResetLocals(l)
            /\ ev' = AcqEv(l, IF t[l] = NoTime THEN "created" ELSE "created_waited", timeout[l])
       ELSE IF TimedOut(timeout_time[l])
       THEN /\ pc' = [pc EXCEPT ![l] = "idle"]
            /\ ResetLocals(l)
            /\ ev' = AcqEv(l, "LockTimeoutError", timeout[l])
            /\ UNCHANGED <<file, lock, keeperVars>>
       ELSE /\ pc' = [pc EXCEPT ![l] = "stat"]
            /\ t' = [t EXCEPT ![l] = 0]
            /\ wake' = [wake EXCEPT ![l] = NoTime]
            /\ ev' = Ev("acquire", l, "exists")
            /\ UNCHANGED <<file, lock, keeperVars, scoped, timeout, timeout_time>>
    /\ UNCHANGED <<id>>

\* os.stat(self.file).st_mtime and the staleness test.  t is not read again
\* before the loop assigns it anew: it is left as 0, an assigned local.
Stat(l) ==
    /\ pc[l] = "stat"
    /\ t' = [t EXCEPT ![l] = 0]
    /\ IF ~file.exists
       THEN /\ pc' = [pc EXCEPT ![l] = "open"]
            /\ ev' = Ev("acquire", l, "vanished")
            /\ UNCHANGED wake
       ELSE IF IsStale(t[l], file.age)
       THEN /\ pc' = [pc EXCEPT ![l] = "reclaim"]
            /\ ev' = Ev("acquire", l, "stale")
            /\ UNCHANGED wake
       ELSE /\ pc' = [pc EXCEPT ![l] = "sleep"]
            /\ wake' = [wake EXCEPT ![l] = PollInterval]
            /\ ev' = Ev("acquire", l, "fresh")
    /\ UNCHANGED <<file, lock, id, keeperVars, scoped, timeout, timeout_time>>

\* open(self.file, 'w') and the write of self.id; then self._lock = True
Reclaim(l) ==
    /\ pc[l] = "reclaim"
    /\ file' = Written(l)
    /\ lock' = [lock EXCEPT ![l] = TRUE]
    /\ Handle(l, scoped[l])
    /\ ResetLocals(l)
    /\ ev' = AcqEv(l, "reclaimed", timeout[l])
    /\ UNCHANGED <<id>>

\* ------------------------------------------- extend, release, keep, exit

\* The outcome of release() and what it leaves of the file and the flag
\* (mutant: release() without `if not self._lock`)
ReleaseResult_nocheck(l) ==
    IF ~file.exists THEN "LockReleaseNotFoundError" ELSE "released"

ReleaseResult(l) ==
    IF ~lock[l] THEN "LockReleaseNotAcquiredError"
    ELSE IF ~file.exists THEN "LockReleaseNotFoundError"
    ELSE "released"

\* (mutant: release() that resets the flag in a `finally`)
DoRelease_finally(l) ==
    IF ReleaseResult(l) = "released"
    THEN /\ file' = NoFile
         /\ lock' = [lock EXCEPT ![l] = FALSE]
    ELSE /\ file' = file
         /\ lock' = [lock EXCEPT ![l] = FALSE]

\* (mutant: release() that resets the flag and leaves the file)
DoRelease_nofile(l) ==
    IF ReleaseResult(l) = "released"
    THEN /\ file' = file
         /\ lock' = [lock EXCEPT ![l] = FALSE]
    ELSE UNCHANGED <<file, lock>>

DoRelease(l) ==
    IF ReleaseResult(l) = "released"
    THEN /\ file' = NoFile
         /\ lock' = [lock EXCEPT ![l] = FALSE]
    ELSE UNCHANGED <<file, lock>>

Release(l) ==
    /\ pc[l] \in {"idle", "body"}
    /\ DoRelease(l)
    /\ ev' = Ev("release", l, ReleaseResult(l))
    /\ UNCHANGED <<id, pc, keeperVars, acqLocals>>

ExtendResult(l) ==
    IF ~lock[l] THEN "LockExtendNotAcquiredError"
    ELSE IF ~file.exists THEN "LockExtendNotFoundError"
    ELSE "extended"

Extend(l) ==
    /\ pc[l] \in {"idle", "body"}
    /\ file' = IF ExtendResult(l) = "extended" THEN Touched ELSE file
    /\ ev' = Ev("extend", l, ExtendResult(l))
    /\ UNCHANGED <<lock, id, pc, keeperVars, acqLocals>>

Keep(l) ==
    /\ pc[l] \in {"idle", "body"}
    /\ DoKeep(l, lock[l])
    /\ ev' = Ev("keep", l, KeepResult(l, lock[l]))
    /\ UNCHANGED <<file, lock, id, pc, acqLocals>>

\* _FileLockAcquireProxy.__exit__, on a normal exit or an exception alike
Exit(l) ==
    /\ pc[l] = "body"
    /\ pc' = [pc EXCEPT ![l] = "idle"]
    /\ IF lock[l]
       THEN /\ DoRelease(l)
            /\ ev' = Ev("exit", l, ReleaseResult(l))
       ELSE /\ UNCHANGED <<file, lock>>
            /\ ev' = Ev("exit", l, "not_held")
    /\ UNCHANGED <<id, keeperVars, acqLocals>>

\* ------------------------------------------------- FileLock._extend

\* time.sleep(poll_interval) is over; `if not self._lock`
KeeperWake(l, s) ==
    /\ kpc[l][s] = "sleep"
    /\ kwake[l][s] = 0
    /\ kpc' = [kpc EXCEPT ![l][s] = IF lock[l] THEN "extend" ELSE "clear"]
    /\ kwake' = [kwake EXCEPT ![l][s] = NoTime]
    /\ ev' = Ev("keeper", l, IF lock[l] THEN "held" ELSE "not_held")
    /\ UNCHANGED <<file, lock, id, keeper, pc, acqLocals>>

\* self._keeper = None ; break
KeeperClear(l, s) ==
    /\ kpc[l][s] = "clear"
    /\ keeper' = [keeper EXCEPT ![l] = None]
    /\ kpc' = [kpc EXCEPT ![l][s] = "none"]
    /\ ev' = Ev("keeper", l, "cleared")
    /\ UNCHANGED <<file, lock, id, pc, kwake, acqLocals>>

\* self.extend(): `if not self._lock: raise LockExtendNotAcquiredError`,
\* which ends the thread
KeeperExtend(l, s) ==
    /\ kpc[l][s] = "extend"
    /\ kpc' = [kpc EXCEPT ![l][s] = IF lock[l] THEN "utime" ELSE "dead"]
    /\ ev' = Ev("keeper", l, IF lock[l] THEN "extending" ELSE "LockExtendNotAcquiredError")
    /\ UNCHANGED <<file, lock, id, keeper, pc, kwake, acqLocals>>

\* self.extend(): os.utime(self.file); FileNotFoundError ends the thread
KeeperUtime(l, s) ==
    /\ kpc[l][s] = "utime"
    /\ IF file.exists
       THEN /\ file' = Touched
            /\ kpc' = [kpc EXCEPT ![l][s] = "sleep"]
            /\ kwake' = [kwake EXCEPT ![l][s] = KeepInterval]
            /\ ev' = Ev("keeper", l, "extended")
       ELSE /\ kpc' = [kpc EXCEPT ![l][s] = "dead"]
            /\ ev' = Ev("keeper", l, "LockExtendNotFoundError")
            /\ UNCHANGED <<file, kwake>>
    /\ UNCHANGED <<lock, id, keeper, pc, acqLocals>>

\* -------------------------------------------------------------- Next

AcquireStep(l) ==
    \/ \E tmo \in Timeouts, w \in BOOLEAN : AcquireCall(l, tmo, w)
    \/ Open(l)
    \/ Stat(l)

CallStep(l) ==
    \/ Release(l)
    \/ Extend(l)
    \/ Keep(l)
    \/ Exit(l)

KeeperStep(l, s) ==
    \/ KeeperWake(l, s)
    \/ KeeperClear(l, s)
    \/ KeeperExtend(l, s)
    \/ KeeperUtime(l, s)

Next ==
    \/ Tick
    \/ \E l \in Locks : AcquireStep(l) \/ Reclaim(l) \/ CallStep(l)
    \/ \E l \in Locks, s \in Slots : KeeperStep(l, s)
    \/ \E l \in Locks, tok \in Tokens : Persist(l, tok)

Spec == Init /\ [][Next]_vars

(***************************************************************************)
(* The runs in which the lease file never reaches age >= stale and no      *)
(* object is built with persist: the clock ticks only while the file stays *)
(* younger than stale.  No such run has a reclaim to make (C1 checks that  *)
(* no acquire() gets to it).                                               *)
(***************************************************************************)
TickFresh ==
    /\ ~(Aged.exists /\ Aged.age >= Stale)
    /\ Tick

NextFresh ==
    \/ TickFresh
    \/ \E l \in Locks : AcquireStep(l) \/ CallStep(l)
    \/ \E l \in Locks, s \in Slots : KeeperStep(l, s)

SpecFresh == Init /\ [][NextFresh]_vars

(***************************************************************************)
(* One acquire() at a time against a lease that nobody extends: the        *)
(* callers acquire without `with` (no keeper runs) and release.  Threads   *)
(* are scheduled fairly and the clock advances.                            *)
(***************************************************************************)
AcquireCallLive(l, tmo) ==
    /\ \A k \in Locks \ {l} : pc[k] \notin AcqPcs
    /\ AcquireCall(l, tmo, FALSE)

NextLive ==
    \/ Tick
    \/ \E l \in Locks, tmo \in Timeouts : AcquireCallLive(l, tmo)
    \/ \E l \in Locks : Open(l) \/ Stat(l) \/ Reclaim(l) \/ Release(l)

FairLive ==
    /\ WF_vars(Tick)
    /\ \A l \in Locks : WF_vars(Open(l)) /\ WF_vars(Stat(l)) /\ WF_vars(Reclaim(l))

SpecLive == Init /\ [][NextLive]_vars /\ FairLive

(***************************************************************************)
(* The renewal task on time: a keeper whose sleep is over runs, and ends   *)
(* its refresh, before the clock ticks again, and a held object is given   *)
(* its keeper (keep(), or `with`) before the clock ticks.  The objects are *)
(* built without persist, so that a held object has acquired its lease.    *)
(***************************************************************************)
TickTimed ==
    /\ \A l \in Locks, s \in Slots :
           /\ kpc[l][s] \notin {"clear", "extend", "utime"}
           /\ ~(kpc[l][s] = "sleep" /\ kwake[l][s] = 0)
    /\ \A l \in Locks : lock[l] => Alive(l) # {}
    /\ Tick

NextTimed ==
    \/ TickTimed
    \/ \E l \in Locks : AcquireStep(l) \/ Reclaim(l) \/ CallStep(l)
    \/ \E l \in Locks, s \in Slots : KeeperStep(l, s)

SpecTimed == Init /\ [][NextTimed]_vars

(***************************************************************************)
(* Any number of objects inside acquire() at once, with releases in        *)
(* between, so that the file can vanish and come back under a waiter; the  *)
(* clock advances and a thread inside acquire() gets to run.               *)
(***************************************************************************)
AcquireCallPlain(l, tmo) == AcquireCall(l, tmo, FALSE)

NextTerm ==
    \/ Tick
    \/ \E l \in Locks, tmo \in Timeouts : AcquireCallPlain(l, tmo)
    \/ \E l \in Locks : Open(l) \/ Stat(l) \/ Reclaim(l) \/ Release(l)

SpecTerm == Init /\ [][NextTerm]_vars /\ FairLive

\* ------------------------------------------------------------ claims

Held == {l \in Locks : lock[l]}

C2_ReclaimAnyTimeout ==
    \A l \in Locks, tmo \in Timeouts :
        ev = AcqEv(l, "LockTimeoutError", tmo)
            => ~(file.exists /\ file.age >= Stale /\ file.content # id[l])

\* C2 amended: an acquire() that finds its deadline not passed when its
\* exclusive create fails (pc = "stat"; never so with timeout = 0) in front
\* of a file of age >= stale that nobody extends ends held, with its token
\* as the content of the file.
C2_ReclaimLaw ==
    \A l \in Locks :
        (pc[l] = "stat" /\ file.exists /\ file.content # id[l]
                        /\ file.age - t[l] >= Stale)
            ~> (lock[l] /\ file.exists /\ file.content = id[l])

\* C2 witness: an acquire() has ended by the reclaim write.
C2_Witness ==
    \E l \in Locks, tmo \in Timeouts :
        /\ ev = AcqEv(l, "reclaimed", tmo)
        /\ lock[l] /\ file.exists /\ file.content = id[l] /\ file.age = 0

FileFresh == file.exists /\ file.age < Stale

\* C3 as stated: while the lease file exists with age < stale, no step of
\* another object's acquire() makes that object held or writes the file.
C3_FreshBlocks ==
    [][\A l \in Locks :
          (pc[l] \in AcqPcs /\ pc'[l] # pc[l] /\ FileFresh /\ file.content # id[l])
              => (~lock'[l] /\ file' = file)]_vars

\* C4: acquire(timeout = 0) never gets past its first exclusive create; in
\* front of a fresh file held by another object it raises LockTimeoutError
\* and leaves the file as it is and the object not held.
C4_TimeoutZero ==
    /\ [](\A l \in Locks : timeout[l] = 0 => pc[l] = "open")
    /\ [][\A l \in Locks :
            (/\ timeout[l] = 0 /\ pc[l] = "open" /\ pc'[l] # "open"
             /\ FileFresh
             /\ \E k \in Locks \ {l} : lock[k] /\ file.content = id[k])
                => (/\ ev' = AcqEv(l, "LockTimeoutError", 0)
                    /\ file' = file
                    /\ ~lock'[l]
                    /\ pc'[l] = "idle")]_vars

\* C4 witness: acquire(timeout = 0) has raised LockTimeoutError in front of
\* a fresh file that the other object holds.
C4_Witness ==
    \E l \in Locks :
        /\ ev = AcqEv(l, "LockTimeoutError", 0)
        /\ ~lock[l]
        /\ FileFresh
        /\ \E k \in Locks \ {l} : lock[k] /\ file.content = id[k]

\* C5 as stated: after __exit__ on an object that was held, the object is
\* not held and the lease file is removed.
C5_ExitReleases ==
    \A l \in Locks :
        (ev.op = "exit" /\ ev.l = l /\ ev.res # "not_held")
            => (~lock[l] /\ ~file.exists)

\* C6 as stated: inside the scope of `with l.acquire()`, while l is held, a
\* renewal task of l is running.
C6_ScopeKeepsRenewal ==
    \A l \in Locks : (pc[l] = "body" /\ lock[l]) => Alive(l) # {}

\* C7: a lock object has at most one renewal task, the one its keeper slot
\* records, and keep() with a keeper recorded starts nothing and returns it.
C7_OneKeeper ==
    /\ [](\A l \in Locks : Cardinality(Alive(l)) <= 1 /\ Alive(l) \subseteq {keeper[l]})
    /\ [][\A l \in Locks :
            (ev'.op = "keep" /\ ev'.l = l /\ keeper[l] # None)
                => (ev'.res = "existing" /\ keeper' = keeper /\ kpc' = kpc)]_vars

\* C7 witness: keep() was called on a held object whose renewal task runs.
C7_Witness ==
    \E l \in Locks :
        /\ ev = Ev("keep", l, "existing")
        /\ lock[l]
        /\ Alive(l) = {keeper[l]}

\* C8 as stated: once an object is released and its renewal task has
\* stopped, its keeper slot is cleared.
C8_KeeperCleared ==
    \A l \in Locks :
        (~lock[l] /\ pc[l] \notin AcqPcs /\ Alive(l) = {}) => keeper[l] = None

\* C9: acquire(timeout < 0) never raises LockTimeoutError, and once the
\* lease is released it ends held with its token in the file.
C9_BlockingAcquire ==
    /\ [][\A l \in Locks :
            timeout[l] < 0 => ev' # AcqEv(l, "LockTimeoutError", timeout[l])]_vars
    /\ \A l \in Locks :
          (pc[l] \in AcqPcs /\ timeout[l] = -1 /\ ~file.exists)
              ~> (lock[l] /\ file.exists /\ file.content = id[l])

\* C9 witness: an acquire(timeout = -1) that polled has got the lease by the
\* exclusive create.
C9_Witness ==
    \E l \in Locks :
        /\ ev = AcqEv(l, "created_waited", -1)
        /\ lock[l] /\ file.content = id[l]

\* the lease of l is kept: l is held, a renewal task of l runs, the file
\* holds l's token
Kept(l) == lock[l] /\ Alive(l) # {} /\ file.exists /\ file.content = id[l]

\* C10: with the renewal task on time, a kept lease never reaches age
\* stale, and no acquire() of another object finds it stale.
C10_RenewalKeepsFresh ==
    /\ [](\A l \in Locks : Kept(l) => file.age < Stale)
    /\ [][\A k \in Locks :
            (pc[k] = "stat" /\ pc'[k] = "reclaim")
                => ~(\E l \in Locks \ {k} : Kept(l))]_vars

\* C10 witness: the renewal task has refreshed a kept lease that another
\* object's acquire() is polling.
C10_Witness ==
    \E l \in Locks :
        /\ ev = Ev("keeper", l, "extended")
        /\ Kept(l)
        /\ \E k \in Locks \ {l} : pc[k] = "sleep"

\* C11: the reclaim write is unconditional: an acquire() that found the
\* file stale writes its token and ends held without an error, whatever
\* has happened to the file since, and leaves every other object as held
\* as it was; so two objects that both found the file stale both end held.
C11_ReclaimUnconditional ==
    [][\A k \in Locks :
          (pc[k] = "reclaim" /\ pc'[k] # "reclaim")
              => (/\ lock'[k]
                  /\ file'.exists /\ file'.content = id[k]
                  /\ ev' = AcqEv(k, "reclaimed", timeout[k])
                  /\ \A l \in Locks \ {k} : lock'[l] = lock[l])]_vars

\* C11 witness: l and k have both found the file stale; l has made its
\* reclaim write and is held, and k is at its own reclaim write, which by
\* the formula makes k held as well and leaves l held.
C11_Witness ==
    \E k \in Locks, l \in Locks :
        /\ k # l /\ id[k] # id[l]
        /\ \E tmo \in Timeouts : ev = AcqEv(l, "reclaimed", tmo)
        /\ lock[l] /\ file.exists /\ file.content = id[l]
        /\ pc[k] = "reclaim" /\ ~lock[k]

\* C12: building an object with persist = tok never changes the lease file
\* and has three outcomes: held with token tok when the file holds tok,
\* LockPersistUnmatchError when it holds another token, LockPersistOSError
\* when it cannot be read; a failure leaves no held object.
C12_PersistOutcomes ==
    [][\A l \in Locks :
          (ev'.op = "persist" /\ ev'.l = l)
              => (/\ file' = file
                  /\ keeper' = keeper
                  /\ IF ~file.exists
                     THEN ev'.res = "LockPersistOSError"
                          /\ lock' = lock /\ id' = id
                     ELSE IF file.content # ev'.arg
                     THEN ev'.res = "LockPersistUnmatchError"
                          /\ lock' = lock /\ id' = id
                     ELSE ev'.res = "held"
                          /\ lock'[l] /\ id'[l] = ev'.arg)]_vars

\* C12 witness: an object was built with the token of the file that
\* another object holds, and is held with that token.
C12_Witness ==
    \E l \in Locks, k \in Locks :
        /\ k # l
        /\ ev = PersEv(l, "held", id[k])
        /\ lock[l] /\ id[l] = id[k] /\ lock[k]
        /\ file.exists /\ file.content = id[l]

\* C13: release() and extend() on an object that is not held raise their
\* NotAcquired error and leave the held flags, the keeper slots and the
\* lease file as they were, whoever holds the file.
C13_NotAcquiredFrame ==
    [][\A l \in Locks :
          (ev'.op \in {"release", "extend"} /\ ev'.l = l /\ ~lock[l])
              => (/\ ev'.res = (IF ev'.op = "release"
                                THEN "LockReleaseNotAcquiredError"
                                ELSE "LockExtendNotAcquiredError")
                  /\ file' = file
                  /\ lock' = lock
                  /\ keeper' = keeper /\ kpc' = kpc)]_vars

\* C13 witness: release() on an object that is not held has raised
\* LockReleaseNotAcquiredError while another object holds the file.
C13_Witness ==
    \E l \in Locks, k \in Locks :
        /\ k # l
        /\ ev = Ev("release", l, "LockReleaseNotAcquiredError")
        /\ ~lock[l]
        /\ lock[k] /\ file.exists /\ file.content = id[k]

\* C14: with no lease going stale and no persist, release() by the object
\* that acquired the lease removes the file and leaves the object not
\* held, and an acquire() whose create attempt then finds no file gets the
\* lease by the exclusive create.
C14_AcquireReleaseClean ==
    /\ [][\A l \in Locks :
            (ev'.op = "release" /\ ev'.l = l /\ lock[l])
                => (ev'.res = "released" /\ ~file'.exists /\ ~lock'[l])]_vars
    /\ [][\A k \in Locks :
            (pc[k] \in {"open", "sleep"} /\ pc'[k] \notin {"open", "sleep"}
             /\ ~file.exists)
                => (/\ ev'.op = "acquire" /\ ev'.l = k
                    /\ ev'.res \in {"created", "created_waited"}
                    /\ lock'[k]
                    /\ file' = [exists |-> TRUE, content |-> id[k], age |-> 0])]_vars

\* C14 witness: l has released the lease it acquired, no file is left, l
\* is not held, and another object is inside acquire().
C14_Witness ==
    \E l \in Locks, k \in Locks :
        /\ k # l
        /\ ev = Ev("release", l, "released")
        /\ ~lock[l] /\ ~file.exists
        /\ pc[k] \in AcqPcs

\* C15: extend() by a held object whose file exists, called by the owner
\* or by its renewal task, sets the file's age to 0 and changes neither
\* the file's content nor any held flag, token or keeper slot.
C15_ExtendFrame ==
    [][\A l \in Locks :
          (/\ ev'.l = l /\ lock[l] /\ file.exists
           /\ \/ ev'.op = "extend"
              \/ ev'.op = "keeper" /\ \E s \in Slots : kpc[l][s] = "utime")
              => (/\ ev'.res = "extended"
                  /\ file' = [exists |-> TRUE, content |-> file.content, age |-> 0]
                  /\ lock' = lock /\ id' = id
                  /\ keeper' = keeper)]_vars

\* C15 witness: a held object has extended its lease while another object
\* waits for it.
C15_Witness ==
    \E l \in Locks, k \in Locks :
        /\ k # l
        /\ ev = Ev("extend", l, "extended")
        /\ lock[l] /\ file.exists /\ file.content = id[l] /\ file.age = 0
        /\ pc[k] = "sleep"

\* C16: acquire() on a held object returns at once, whatever the file is:
\* it does not enter the loop, raises nothing, and leaves the file (its
\* existence, content and age) and every held flag and token as they were.
C16_ReentrantNoop ==
    [][\A l \in Locks :
          (ev'.op = "acquire" /\ ev'.l = l /\ lock[l] /\ pc[l] \in {"idle", "body"})
              => (/\ ev'.res = "reentrant"
                  /\ file' = file
                  /\ lock' = lock /\ id' = id
                  /\ pc'[l] \in {"idle", "body"}
                  /\ timeout_time' = timeout_time)]_vars

\* C16 witness: acquire() has returned on a held object whose lease file
\* is gone.
C16_Witness ==
    \E l \in Locks :
        /\ ev = Ev("acquire", l, "reentrant")
        /\ lock[l]
        /\ ~file.exists

\* C17: with the clock advancing, acquire() with a timeout >= 0 ends, held
\* or with LockTimeoutError, also when other objects keep creating and
\* removing the file; and a create attempt that fails with the deadline
\* passed raises LockTimeoutError before anything else is looked at.
C17_AcquireTerminates ==
    /\ \A l \in Locks :
          (pc[l] \in AcqPcs /\ timeout[l] >= 0)
              ~> (/\ pc[l] \notin AcqPcs
                  /\ ev.op = "acquire" /\ ev.l = l
                  /\ ev.res \in {"created", "created_waited", "reclaimed",
                                 "LockTimeoutError"})
    /\ [][\A l \in Locks :
            (/\ ev'.op = "acquire" /\ ev'.l = l
             /\ pc[l] \in {"open", "sleep"}
             /\ file.exists /\ timeout_time[l] = 0)
                => (ev' = AcqEv(l, "LockTimeoutError", timeout[l])
                    /\ file' = file /\ ~lock'[l])]_vars

\* C17 witness: an acquire() with timeout 1 that has polled has ended with
\* LockTimeoutError in front of a fresh file.
C17_Witness ==
    \E l \in Locks :
        /\ ev = AcqEv(l, "LockTimeoutError", 1)
        /\ pc[l] = "idle" /\ ~lock[l]
        /\ FileFresh

\* C18 as stated: the renewal task of an object refreshes the lease file
\* only while the object is held, never after its release() has returned.
C18_NoRefreshAfterRelease ==
    [][\A l \in Locks :
          (ev'.op = "keeper" /\ ev'.l = l /\ ev'.res = "extended")
              => lock[l]]_vars

\* C19 as stated: release() of a held object removes the lease file, and
\* its extend() (called by the owner or by its renewal task) refreshes it,
\* only when the file holds the token of that object.
C19_OwnershipRespected ==
    [][\A l \in Locks :
          (/\ ev'.l = l /\ lock[l]
           /\ \/ ev'.op \in {"release", "exit"} /\ ev'.res = "released"
              \/ ev'.op \in {"extend", "keeper"} /\ ev'.res = "extended")
              => file.content = id[l]]_vars

\* C20: release() of a held object whose file is gone raises
\* LockReleaseNotFoundError and changes nothing: the object stays held with
\* no file, and acquire() on it then returns by the re-entrant path
\* without creating the file.
C20_FailedReleaseKeepsHeld ==
    /\ [][\A l \in Locks :
            (ev'.op = "release" /\ ev'.l = l /\ lock[l] /\ ~file.exists)
                => (/\ ev'.res = "LockReleaseNotFoundError"
                    /\ lock' = lock /\ id' = id
                    /\ file' = file
                    /\ keeper' = keeper /\ kpc' = kpc /\ pc' = pc)]_vars
    /\ [][\A l \in Locks :
            (/\ ev.op = "release" /\ ev.l = l
             /\ ev.res = "LockReleaseNotFoundError"
             /\ ev'.op = "acquire" /\ ev'.l = l)
                => (/\ ev'.res = "reentrant"
                    /\ lock'[l]
                    /\ ~file'.exists)]_vars

\* C20 witness: release() of a held object has raised
\* LockReleaseNotFoundError; the object is still held and there is no file.
C20_Witness ==
    \E l \in Locks :
        /\ ev = Ev("release", l, "LockReleaseNotFoundError")
        /\ lock[l]
        /\ ~file.exists
====
